---- MODULE Spec2Model ----
(***************************************************************************)
(* Bookstore catalog service (cmd/main.go): one MongoDB collection of book *)
(* documents, seeded at startup by prepareData and served by the echo      *)
(* route handlers of main.                                                 *)
(*                                                                         *)
(* A stored document is a record over the six BSON field names.  The three *)
(* optional fields carry the tag `omitempty`, so a BookStore whose field   *)
(* is the empty string is stored WITHOUT that field; the value Absent      *)
(* stands for a field the document does not have.  The collection is the   *)
(* sequence of its documents in storage (insertion) order; a document's    *)
(* position stands for its database-assigned _id.                          *)
(***************************************************************************)
EXTENDS Naturals, Sequences, FiniteSets, TLC

VARIABLES coll, up, last, hs

vars == <<coll, up, last, hs>>

(***************************************************************************)
(* Bounds of the model                                                     *)
(***************************************************************************)
MaxBooks == 4

MaxHandlers == 2

(***************************************************************************)
(* HTTP status codes answered by the handlers                              *)
(***************************************************************************)
StatusOK == 200

StatusCreated == 201

StatusBadRequest == 400

StatusNotFound == 404

StatusConflict == 409

(***************************************************************************)
(* BookStore and its BSON encoding                                         *)
(***************************************************************************)
Absent == "<absent>"

Fields == {"ID", "BookName", "BookAuthor", "BookEdition", "BookPages", "BookYear"}

OmitEmptyFields == {"BookEdition", "BookPages", "BookYear"}

BookStore(id, name, author, edition, pages, year) ==
    [ID |-> id, BookName |-> name, BookAuthor |-> author,
     BookEdition |-> edition, BookPages |-> pages, BookYear |-> year]

\* (String literals are kept in ASCII: the "e" of "Jose" stands for the
\* accented letter of the source.)
\* bson.Marshal of a BookStore: an omitempty field holding "" is left out.
\* (MongoID is the zero ObjectID in every value the program marshals and is
\* left out as well; the server assigns _id.)
Marshal(book) ==
    [f \in Fields |-> IF f \in OmitEmptyFields /\ book[f] = "" THEN Absent ELSE book[f]]

\* cursor.All / bson.Unmarshal into a BookStore: a missing field decodes to "".
Decode(doc) ==
    [f \in Fields |-> IF doc[f] = Absent THEN "" ELSE doc[f]]

\* A query filter is a function from some field names to the string each must
\* equal.  A document lacking the field does not match, whatever the string.
Matches(doc, filter) ==
    \A f \in DOMAIN filter : doc[f] # Absent /\ doc[f] = filter[f]

\* The filter a BookStore struct marshals to when passed to Find.
StructFilter(book) ==
    [f \in {g \in Fields : Marshal(book)[g] # Absent} |-> book[f]]

\* A faulty variant: the duplicate check looks at the external id alone.
CreateFilterByID(newBook) ==
    [f \in {"ID"} |-> newBook[f]]

\* The explicit bson.M filter of the create handler: all six fields, "" included.
CreateFilter(newBook) ==
    [f \in Fields |-> newBook[f]]

IDFilter(id) ==
    [f \in {"ID"} |-> id]

(***************************************************************************)
(* Collection operations of the driver                                     *)
(***************************************************************************)
Find(c, filter) ==
    SelectSeq(c, LAMBDA d : Matches(d, filter))

MatchIdx(c, filter) ==
    {i \in 1..Len(c) : Matches(c[i], filter)}

FirstIdx(S) ==
    CHOOSE i \in S : \A j \in S : i <= j

\* FindOne(...).Err() == nil
FindOneOk(c, filter) ==
    MatchIdx(c, filter) # {}

InsertOne(c, book) ==
    Append(c, Marshal(book))

\* A faulty variant: every matching document is updated.
UpdateMany(c, filter, set) ==
    [i \in 1..Len(c) |->
        IF Matches(c[i], filter)
        THEN [f \in Fields |-> IF f \in DOMAIN set THEN set[f] ELSE c[i][f]]
        ELSE c[i]]

\* A faulty variant: the matching document is replaced by the update document.
ReplaceOne(c, filter, set) ==
    [i \in 1..Len(c) |->
        IF i \in {j \in 1..Len(c) : Matches(c[j], filter)}
           /\ \A j \in 1..(i - 1) : ~Matches(c[j], filter)
        THEN [f \in Fields |-> IF f \in DOMAIN set THEN set[f]
                                ELSE IF f = "ID" THEN c[i][f] ELSE Absent]
        ELSE c[i]]

\* UpdateOne with {"$set": set}: the first matching document gets the fields
\* of set; every other field and document is kept.
UpdateOne(c, filter, set) ==
    IF MatchIdx(c, filter) = {} THEN c
    ELSE LET i == FirstIdx(MatchIdx(c, filter))
         IN  [c EXCEPT ![i] = [f \in Fields |-> IF f \in DOMAIN set THEN set[f] ELSE c[i][f]]]

\* A faulty variant: the result's count is not examined.
MatchedCountIgnored(c, filter) ==
    1

MatchedCount(c, filter) ==
    IF MatchIdx(c, filter) = {} THEN 0 ELSE 1

DeleteOne(c, filter) ==
    IF MatchIdx(c, filter) = {} THEN c
    ELSE LET i == FirstIdx(MatchIdx(c, filter))
         IN  SubSeq(c, 1, i - 1) \o SubSeq(c, i + 1, Len(c))

DeletedCount(c, filter) ==
    IF MatchIdx(c, filter) = {} THEN 0 ELSE 1

findAllBooks(c) ==
    [i \in 1..Len(c) |-> Decode(c[i])]

(***************************************************************************)
(* prepareData                                                             *)
(***************************************************************************)
startData ==
    << BookStore("example1", "The Vortex", "Jose Eustasio Rivera", "958-30-0804-4", "292", "1924"),
       BookStore("example2", "Frankenstein", "Mary Shelley", "978-3-649-64609-9", "280", "1818"),
       BookStore("example3", "The Black Cat", "Edgar Allan Poe", "978-3-99168-238-7", "280", "1843") >>

\* The loop over startData from its i-th element on.  log.Fatal ends the
\* process at once: what was inserted before stays in the database.
RECURSIVE prepareDataFrom(_, _)
prepareDataFrom(c, i) ==
    IF i > Len(startData) THEN [coll |-> c, fatal |-> FALSE]
    ELSE LET results == Find(c, StructFilter(startData[i]))
         IN  IF Len(results) > 1 THEN [coll |-> c, fatal |-> TRUE]
             ELSE IF Len(results) = 0 THEN prepareDataFrom(InsertOne(c, startData[i]), i + 1)
             ELSE prepareDataFrom(c, i + 1)

\* A faulty variant: the first record is inserted without the check.
prepareDataUnchecked(c) ==
    prepareDataFrom(InsertOne(c, startData[1]), 2)

prepareData(c) ==
    prepareDataFrom(c, 1)

(***************************************************************************)
(* Derived listings of GET /authors and GET /years                         *)
(***************************************************************************)
\* The scan with a membership map: a value is appended the first time it is met.
RECURSIVE uniqueLoop(_, _, _, _, _)
uniqueLoop(results, f, i, seenMap, acc) ==
    IF i > Len(results) THEN acc
    ELSE IF results[i][f] \in seenMap THEN uniqueLoop(results, f, i + 1, seenMap, acc)
    ELSE uniqueLoop(results, f, i + 1, seenMap \cup {results[i][f]}, Append(acc, results[i][f]))

\* A faulty variant: no membership test.
authorsViewAll(c) ==
    [i \in 1..Len(c) |-> findAllBooks(c)[i]["BookAuthor"]]

authorsView(c) ==
    uniqueLoop(findAllBooks(c), "BookAuthor", 1, {}, <<>>)

yearsView(c) ==
    uniqueLoop(findAllBooks(c), "BookYear", 1, {}, <<>>)

(***************************************************************************)
(* Request bodies                                                          *)
(***************************************************************************)
NoBody == "<none>"

ZeroBook == BookStore("", "", "", "", "", "")

EmptyData == <<>>

\* A JSON value of a PUT body: a string, or a value of another type.
JsonString(s) == [t |-> "string", s |-> s]

JsonNumber == [t |-> "number", s |-> ""]

RecognizedKeys == {"title", "author", "edition", "pages", "year"}

JsonKeys == RecognizedKeys \cup {"id"}

KeyField(k) ==
    CASE k = "title" -> "BookName"
      [] k = "author" -> "BookAuthor"
      [] k = "edition" -> "BookEdition"
      [] k = "pages" -> "BookPages"
      [] k = "year" -> "BookYear"

\* A faulty variant: a value of any type is taken.
AnyKeys(data) ==
    DOMAIN data \cap RecognizedKeys

\* The keys of data that pass the type assertion data[k].(string).
StringKeys(data) ==
    {k \in DOMAIN data \cap RecognizedKeys : data[k].t = "string"}

\* The $set document the update handler builds.
updateFields(data) ==
    [f \in {KeyField(k) : k \in StringKeys(data)} |->
        data[CHOOSE k \in StringKeys(data) : KeyField(k) = f].s]

(***************************************************************************)
(* State                                                                   *)
(***************************************************************************)
Idle == [pc |-> "idle", newBook |-> NoBody, status |-> 0]

Response(op, id, body, status, out) ==
    [op |-> op, id |-> id, body |-> body, status |-> status, out |-> out]

Init ==
    /\ coll = <<>>
    /\ up = FALSE
    /\ last = Response("none", "", NoBody, 0, <<>>)
    /\ hs = [h \in 1..MaxHandlers |-> Idle]

(***************************************************************************)
(* main: seeding, then the server answers requests                         *)
(***************************************************************************)
\* A start (or restart) of the process against the database as it is.
\* No request is in flight in a process that starts.
Main ==
    LET r == prepareData(coll)
    IN  /\ Len(r.coll) <= MaxBooks
        /\ coll' = r.coll
        /\ up' = ~r.fatal
        /\ last' = Response("main", "", NoBody, 0, <<>>)
        /\ hs' = [h \in 1..MaxHandlers |-> Idle]

\* A faulty variant: the insert is refused when an equal record is stored by then.
postInsertUnique(c, newBook) ==
    IF FindOneOk(c, CreateFilter(newBook))
    THEN [coll |-> c, status |-> StatusConflict]
    ELSE [coll |-> InsertOne(c, newBook), status |-> StatusCreated]

\* What the handler does once FindOne has reported no match: InsertOne, 201.
\* The collection c is the one InsertOne meets, not the one FindOne saw.
postInsert(c, newBook) ==
    [coll |-> InsertOne(c, newBook), status |-> StatusCreated]

\* GET /api/books
ApiGetBooks ==
    /\ up
    /\ last' = Response("GET /api/books", "", NoBody, StatusOK, findAllBooks(coll))
    /\ UNCHANGED <<coll, up, hs>>

\* GET /authors
GetAuthors ==
    /\ up
    /\ last' = Response("GET /authors", "", NoBody, StatusOK, authorsView(coll))
    /\ UNCHANGED <<coll, up, hs>>

\* GET /years
GetYears ==
    /\ up
    /\ last' = Response("GET /years", "", NoBody, StatusOK, yearsView(coll))
    /\ UNCHANGED <<coll, up, hs>>

\* POST /api/books, handled without another request in between
\* (bindErr: c.Bind rejects the body, and newBook stays the zero BookStore)
ApiPostBooks(bindErr, newBook) ==
    /\ up
    /\ bindErr => newBook = ZeroBook
    /\ IF bindErr
       THEN /\ last' = Response("POST", "", newBook, StatusBadRequest, <<>>)
            /\ coll' = coll
       ELSE IF FindOneOk(coll, CreateFilter(newBook))
       THEN /\ last' = Response("POST", "", newBook, StatusConflict, <<>>)
            /\ coll' = coll
       ELSE /\ Len(coll) < MaxBooks
            /\ coll' = postInsert(coll, newBook).coll
            /\ last' = Response("POST", "", newBook, postInsert(coll, newBook).status, <<>>)
    /\ UNCHANGED <<up, hs>>

\* PUT /api/books/:id
\* (bindErr: c.Bind rejects the body, and data stays the empty map)
ApiPutBook(id, bindErr, data) ==
    /\ up
    /\ bindErr => data = EmptyData
    /\ IF bindErr
       THEN /\ last' = Response("PUT", id, data, StatusBadRequest, <<>>)
            /\ coll' = coll
       ELSE IF DOMAIN updateFields(data) = {}
       THEN /\ last' = Response("PUT", id, data, StatusBadRequest, <<>>)
            /\ coll' = coll
       ELSE /\ coll' = UpdateOne(coll, IDFilter(id), updateFields(data))
            /\ last' = Response("PUT", id, data,
                                IF MatchedCount(coll, IDFilter(id)) = 0
                                THEN StatusNotFound ELSE StatusOK, <<>>)
    /\ UNCHANGED <<up, hs>>

\* DELETE /api/books/:id
ApiDeleteBook(id) ==
    /\ up
    /\ coll' = DeleteOne(coll, IDFilter(id))
    /\ last' = Response("DELETE", id, NoBody,
                        IF DeletedCount(coll, IDFilter(id)) = 0
                        THEN StatusNotFound ELSE StatusOK, <<>>)
    /\ UNCHANGED <<up, hs>>

(***************************************************************************)
(* POST /api/books as the two storage calls it makes, for requests handled *)
(* concurrently: each request runs in a goroutine of its own               *)
(***************************************************************************)
\* c.Bind and the duplicate check FindOne.
PostFindOne(h, bindErr, newBook) ==
    /\ up
    /\ hs[h].pc \in {"idle", "done"}
    /\ bindErr => newBook = ZeroBook
    /\ hs' = [hs EXCEPT ![h] =
                IF bindErr
                THEN [pc |-> "done", newBook |-> newBook, status |-> StatusBadRequest]
                ELSE IF FindOneOk(coll, CreateFilter(newBook))
                THEN [pc |-> "done", newBook |-> newBook, status |-> StatusConflict]
                ELSE [pc |-> "insert", newBook |-> newBook, status |-> 0]]
    /\ UNCHANGED <<coll, up, last>>

\* InsertOne and the response.
PostInsertOne(h) ==
    /\ up
    /\ hs[h].pc = "insert"
    /\ Len(coll) < MaxBooks
    /\ LET r == postInsert(coll, hs[h].newBook)
       IN  /\ coll' = r.coll
           /\ hs' = [hs EXCEPT ![h] = [pc |-> "done", newBook |-> hs[h].newBook, status |-> r.status]]
    /\ UNCHANGED <<up, last>>

(***************************************************************************)
(* Requests the model draws                                                *)
(***************************************************************************)
\* The book of the end-to-end scenario: its optional fields are empty.
Dune == BookStore("b4", "Dune", "Frank Herbert", "", "", "")

\* The value a request may give each field besides the one a base record has.
OtherValue(f) ==
    CASE f = "ID" -> {"b4", "example1"}
      [] f = "BookName" -> {"Dune", "The Vortex"}
      [] f = "BookAuthor" -> {"Frank Herbert", "Jose Eustasio Rivera"}
      [] f = "BookEdition" -> {"", "958-30-0804-4"}
      [] f = "BookPages" -> {"", "292"}
      [] f = "BookYear" -> {"", "1965"}

\* R and every record that differs from R in exactly one field.
OneFieldVariants(R) ==
    UNION {{[R EXCEPT ![f] = v] : v \in OtherValue(f)} : f \in Fields}

\* Dune and its one-field variants; the first example and the record that
\* differs from it in the pages alone.
PostBodies ==
    OneFieldVariants(Dune) \cup {startData[1], [startData[1] EXCEPT !["BookPages"] = ""]}

PathIds == {"example1", "b4"}

\* The string a PUT body may give each key.
PutValue(k) ==
    CASE k = "title" -> "Dune"
      [] k = "author" -> "Frank Herbert"
      [] k = "edition" -> ""
      [] k = "pages" -> "292"
      [] k = "year" -> "1965"
      [] k = "id" -> "b9"

\* Every body over the keys K: each key a string or a number.
BodiesOver(K) ==
    {d \in [K -> {JsonNumber} \cup {JsonString(PutValue(k)) : k \in K}] :
        \A k \in K : d[k].t = "string" => d[k].s = PutValue(k)}

\* The bodies a PUT may carry: any recognized keys, each a string or a number,
\* and the bodies of the single unrecognized key id.
PutBodies ==
    UNION {BodiesOver(K) : K \in (SUBSET RecognizedKeys) \cup {{"id"}}}

\* The empty object, and bodies of a single key: year or pages as a string,
\* pages as a number, the unrecognized key id.
PutBodiesBasic ==
    {EmptyData,
     [k \in {"year"} |-> JsonString(PutValue("year"))],
     [k \in {"pages"} |-> JsonString(PutValue("pages"))],
     [k \in {"pages"} |-> JsonNumber],
     [k \in {"id"} |-> JsonString(PutValue("id"))]}

\* The external id updates are tried on.
UpdateIds == {"example1"}

\* The bodies two concurrent creates carry.
RaceBodies ==
    {Dune, [startData[1] EXCEPT !["ID"] = "b4"]}

Next ==
    \/ Main
    \/ ApiGetBooks
    \/ GetAuthors
    \/ GetYears
    \/ \E newBook \in PostBodies : ApiPostBooks(FALSE, newBook)
    \/ ApiPostBooks(TRUE, ZeroBook)
    \/ \E id \in PathIds, data \in PutBodiesBasic : ApiPutBook(id, FALSE, data)
    \/ \E id \in PathIds : ApiPutBook(id, TRUE, EmptyData)
    \/ \E id \in PathIds : ApiDeleteBook(id)

Spec == Init /\ [][Next]_vars

\* Updates with every body, on the collections that seeding, updates, deletes
\* and restarts of the process leave.  A restart after an update of the first
\* example seeds it again: two records then carry its external id.
NextUpdate ==
    \/ Main
    \/ \E id \in UpdateIds, data \in PutBodies : ApiPutBook(id, FALSE, data)
    \/ \E id \in UpdateIds : ApiPutBook(id, TRUE, EmptyData)
    \/ \E id \in UpdateIds : ApiDeleteBook(id)

SpecUpdate == Init /\ [][NextUpdate]_vars

\* Creates handled concurrently by MaxHandlers goroutines.
NextRace ==
    \/ Main
    \/ ApiGetBooks
    \/ \E h \in 1..MaxHandlers, newBook \in RaceBodies : PostFindOne(h, FALSE, newBook)
    \/ \E h \in 1..MaxHandlers : PostFindOne(h, TRUE, ZeroBook)
    \/ \E h \in 1..MaxHandlers : PostInsertOne(h)
    \/ \E id \in PathIds : ApiDeleteBook(id)

SpecRace == Init /\ [][NextRace]_vars

(***************************************************************************)
(* Vocabulary of the properties                                            *)
(***************************************************************************)
\* The records of c, as the API shows them.
Books(c) == [i \in 1..Len(c) |-> [f \in Fields |-> IF c[i][f] = Absent THEN "" ELSE c[i][f]]]

\* How many stored records equal book in all six fields.
Count(c, book) == Cardinality({i \in 1..Len(c) : Books(c)[i] = book})

DiffFields(a, b) == {f \in Fields : a[f] # b[f]}

\* The last step handled a well-formed POST.
Posted == last'.op = "POST" /\ last'.status # StatusBadRequest

HasStringKey(data) == \E k \in DOMAIN data \cap RecognizedKeys : data[k].t = "string"

\* The value a key of a PUT body supplies; a number is no string.
Supplied(v) == IF v.t = "string" THEN v.s ELSE "<number>"

\* new is old with exactly the fields of keys set to the values data supplies.
SetExactly(old, new, keys, data) ==
    /\ \A k \in keys : new[KeyField(k)] = Supplied(data[k])
    /\ \A f \in Fields \ {KeyField(k) : k \in keys} : new[f] = old[f]

Carriers(c, id) == {i \in 1..Len(c) : c[i]["ID"] = id}

(***************************************************************************)
(* C1  Create-duplicate rejection                                          *)
(***************************************************************************)
\* C1: a POST whose body equals, in all six fields, a record already stored
\* responds 409 and inserts nothing.
CreateDuplicateRejected ==
    [][(Posted /\ Count(coll, last'.body) >= 1)
         => (last'.status = StatusConflict /\ coll' = coll)]_vars

(***************************************************************************)
(* C2  Create of a near-duplicate                                          *)
(***************************************************************************)
NearDuplicate(c, body) ==
    \E i \in 1..Len(c) : Cardinality(DiffFields(Books(c)[i], body)) = 1

InsertedOne ==
    /\ last'.status = StatusCreated
    /\ Len(coll') = Len(coll) + 1
    /\ SubSeq(coll', 1, Len(coll)) = coll

\* C2 as stated: a POST whose body differs in exactly one field from some
\* stored record responds 201 and adds exactly one record, keeping the others.
NearDuplicateCreated ==
    [][(Posted /\ NearDuplicate(coll, last'.body)) => InsertedOne]_vars

\* C2 amended: the same, provided no stored record equals the body in all six
\* fields.
NearDuplicateCreatedUnlessStored ==
    [][(Posted /\ NearDuplicate(coll, last'.body) /\ Count(coll, last'.body) = 0)
         => InsertedOne]_vars

\* A near-duplicate was created: the record just appended differs in one field
\* from a record stored before it.
NearDuplicateWitness ==
    /\ last.op = "POST"
    /\ last.status = StatusCreated
    /\ Len(coll) >= 2
    /\ Books(coll)[Len(coll)] = last.body
    /\ NearDuplicate(SubSeq(coll, 1, Len(coll) - 1), last.body)

(***************************************************************************)
(* C3  Update partial-field law                                            *)
(***************************************************************************)
\* C3 as stated: a PUT whose body has a string-valued recognized key, on an id
\* some record carries, responds 200 and sets exactly the fields of the
\* recognized keys present, to the values supplied, in a record with that id;
\* nothing else changes.
UpdatePartialFields ==
    [][(last'.op = "PUT" /\ HasStringKey(last'.body) /\ Carriers(coll, last'.id) # {})
         => /\ last'.status = StatusOK
            /\ Len(coll') = Len(coll)
            /\ \E i \in Carriers(coll, last'.id) :
                  /\ SetExactly(coll[i], coll'[i], DOMAIN last'.body \cap RecognizedKeys, last'.body)
                  /\ \A j \in 1..Len(coll) : j # i => coll'[j] = coll[j]]_vars

\* C3 amended: exactly the fields of the string-valued recognized keys are
\* set (a key with a non-string value changes nothing), in the first stored
\* record that carries the id.
UpdateStringFields ==
    [][LET C == Carriers(coll, last'.id)
       IN  (last'.op = "PUT" /\ HasStringKey(last'.body) /\ C # {})
             => /\ last'.status = StatusOK
                /\ Len(coll') = Len(coll)
                /\ LET i == CHOOSE n \in C : \A m \in C : n <= m
                       K == {k \in DOMAIN last'.body \cap RecognizedKeys : last'.body[k].t = "string"}
                   IN  /\ SetExactly(coll[i], coll'[i], K, last'.body)
                       /\ \A j \in 1..Len(coll) : j # i => coll'[j] = coll[j]]_vars

\* An update of several string keys beside a non-string key succeeded on an id
\* that two records carry.
UpdateWitness ==
    /\ last.op = "PUT"
    /\ last.status = StatusOK
    /\ Cardinality({k \in DOMAIN last.body : last.body[k].t = "string"}) >= 2
    /\ \E k \in DOMAIN last.body : last.body[k].t = "number"
    /\ Cardinality(Carriers(coll, last.id)) = 2

(***************************************************************************)
(* C4  Update with nothing to set                                          *)
(***************************************************************************)
\* C4: a PUT whose body has no string-valued recognized key responds 400 and
\* changes nothing, whether or not a record carries the path id.
UpdateNothingToSet ==
    [][(last'.op = "PUT" /\ ~HasStringKey(last'.body))
         => (last'.status = StatusBadRequest /\ coll' = coll)]_vars

\* A PUT of recognized keys with non-string values only, on an id a record
\* carries, was answered 400.
UpdateNothingWitness ==
    /\ last.op = "PUT"
    /\ last.status = StatusBadRequest
    /\ Cardinality(DOMAIN last.body \cap RecognizedKeys) >= 2
    /\ Carriers(coll, last.id) # {}

(***************************************************************************)
(* C5  Update/Delete not-found law                                         *)
(***************************************************************************)
\* C5 as stated: a PUT or DELETE on an id no record carries responds 404 and
\* changes nothing.
UpdateDeleteNotFound ==
    [][(last'.op \in {"PUT", "DELETE"} /\ Carriers(coll, last'.id) = {})
         => (last'.status = StatusNotFound /\ coll' = coll)]_vars

\* C5 amended: a DELETE, or a PUT whose body has a string-valued recognized
\* key, on an id no record carries responds 404 and changes nothing.
UpdateDeleteNotFoundWithFields ==
    [][(/\ Carriers(coll, last'.id) = {}
        /\ \/ last'.op = "DELETE"
           \/ last'.op = "PUT" /\ HasStringKey(last'.body))
         => (last'.status = StatusNotFound /\ coll' = coll)]_vars

\* A PUT with a field to set was answered 404 while other records are stored.
NotFoundWitness ==
    /\ last.op = "PUT"
    /\ last.status = StatusNotFound
    /\ HasStringKey(last.body)
    /\ Len(coll) >= 1
    /\ Carriers(coll, last.id) = {}

(***************************************************************************)
(* C6  Idempotent bootstrap                                                *)
(***************************************************************************)
\* C6 as stated: after a run of the seeding, from any storage state, each
\* example record is stored exactly once.
IdempotentBootstrap ==
    [][last'.op = "main"
         => \A k \in 1..Len(startData) : Count(coll', startData[k]) = 1]_vars

\* C6 amended: from any storage state that holds no example record more than
\* once, a run of the seeding completes and leaves each example record stored
\* exactly once; a run on a state where each is stored once inserts nothing.
IdempotentBootstrapNoDuplicates ==
    [][(last'.op = "main" /\ \A k \in 1..Len(startData) : Count(coll, startData[k]) <= 1)
         => /\ up'
            /\ \A k \in 1..Len(startData) : Count(coll', startData[k]) = 1
            /\ (\A k \in 1..Len(startData) : Count(coll, startData[k]) = 1) => coll' = coll]_vars

\* The seeding ran on a database that held another record and lacked the
\* first example, and inserted it after that record.
BootstrapWitness ==
    /\ last.op = "main"
    /\ up
    /\ Len(coll) = Len(startData) + 1
    /\ Books(coll)[Len(coll)] = startData[1]

(***************************************************************************)
(* C7  Derived listings                                                    *)
(***************************************************************************)
FirstPos(c, f, v) ==
    CHOOSE i \in 1..Len(c) :
        /\ Books(c)[i][f] = v
        /\ \A j \in 1..Len(c) : Books(c)[j][f] = v => i <= j

ListingOf(out, c, f) ==
    /\ {out[a] : a \in 1..Len(out)} = {Books(c)[i][f] : i \in 1..Len(c)}
    /\ \A a, b \in 1..Len(out) : a < b =>
          /\ out[a] # out[b]
          /\ FirstPos(c, f, out[a]) < FirstPos(c, f, out[b])

\* C7: GET /authors (GET /years) renders each distinct author (year) of the
\* stored records exactly once, nothing else, in order of first occurrence.
DerivedListings ==
    /\ last.op = "GET /authors" => ListingOf(last.out, coll, "BookAuthor")
    /\ last.op = "GET /years" => ListingOf(last.out, coll, "BookYear")

\* A listing of four records, two of which share the author.
ListingWitness ==
    /\ last.op = "GET /authors"
    /\ Len(coll) = 4
    /\ Len(last.out) = 3
    /\ Books(coll)[1]["BookAuthor"] = Books(coll)[4]["BookAuthor"]

(***************************************************************************)
(* C8  End-to-end scenario                                                 *)
(***************************************************************************)
WithDune == Append(startData, Dune)

WithDune1965 == Append(startData, [Dune EXCEPT !["BookYear"] = "1965"])

Year1965 == [k \in {"year"} |-> JsonString("1965")]

\* C8: fresh database, bootstrap: GET /api/books returns the 3 examples; POST
\* of Dune: 201 and 4 entries; PUT b4 {year: "1965"}: 200, year set and the
\* other fields kept; DELETE b4: 200 and the 3 examples again.
EndToEndScenario ==
    [][/\ (coll = <<>> /\ last'.op = "main") => (up' /\ Books(coll') = startData)
       /\ (Books(coll) = startData /\ Posted /\ last'.body = Dune)
             => (last'.status = StatusCreated /\ Books(coll') = WithDune)
       /\ (Books(coll) = WithDune /\ last'.op = "PUT" /\ last'.id = "b4" /\ last'.body = Year1965)
             => (last'.status = StatusOK /\ Books(coll') = WithDune1965)
       /\ (Books(coll) = WithDune1965 /\ last'.op = "DELETE" /\ last'.id = "b4")
             => (last'.status = StatusOK /\ Books(coll') = startData)
       /\ (last'.op = "GET /api/books" /\ Books(coll) \in {startData, WithDune, WithDune1965})
             => (last'.status = StatusOK /\ last'.out = Books(coll))]_vars

\* The scenario's last step: b4 deleted, the 3 examples are what is left.
ScenarioWitness ==
    /\ last.op = "DELETE"
    /\ last.id = "b4"
    /\ last.status = StatusOK
    /\ Books(coll) = startData

(***************************************************************************)
(* C9  Create race                                                         *)
(***************************************************************************)
\* C9: the duplicate check and the insert are not atomic: a handler that has
\* passed the check inserts its record and responds 201 whatever was inserted
\* in between, also an equal record by a concurrent handler.
CreateRace ==
    [][\A h \in 1..MaxHandlers :
          (hs[h].pc = "insert" /\ hs'[h].pc = "done")
             => /\ hs'[h].status = StatusCreated
                /\ coll' = Append(coll, Marshal(hs[h].newBook))]_vars

\* Two handlers were given the same record, none of its fields empty, both
\* answered 201 and the collection holds it twice.
CreateRaceWitness ==
    \E g, h \in 1..MaxHandlers :
        /\ g # h
        /\ hs[g].pc = "done" /\ hs[h].pc = "done"
        /\ hs[g].status = StatusCreated /\ hs[h].status = StatusCreated
        /\ hs[g].newBook = hs[h].newBook
        /\ \A f \in Fields : hs[g].newBook[f] # ""
        /\ Count(coll, hs[g].newBook) = 2

(***************************************************************************)
(* C10  No exact duplicates under sequential execution                     *)
(***************************************************************************)
\* C10: handled one at a time, the operations never leave two records equal
\* in all six fields, and the seeding never meets its fatal branch.
NoExactDuplicates ==
    /\ \A i, j \in 1..Len(coll) : i < j => Books(coll)[i] # Books(coll)[j]
    /\ last.op = "main" => up

====
